---- MODULE Spec2Model ----
(***************************************************************************)
(* Model of the image downloader back end (src/app.py): the job registry, *)
(* the single and the batch worker, the pattern extractor, the fetcher    *)
(* and the two packagers.                                                  *)
(*                                                                         *)
(* Strings are sequences of one-character strings, so that the regular    *)
(* expression, str.replace, str.format and os.path.basename are computed  *)
(* as Python computes them.                                               *)
(***************************************************************************)
EXTENDS Integers, Sequences, FiniteSets, TLC

(***************************************************************************)
(* Bounds of the model.                                                    *)
(***************************************************************************)
\* number of submissions accepted in one behaviour
MaxJobs == 2
\* largest page number an end URL of the input set carries
MaxPage == 3

(***************************************************************************)
(* Strings                                                                 *)
(***************************************************************************)
Digit == {"0", "1", "2", "3", "4", "5", "6", "7", "8", "9"}
Letter == {"h", "t", "p", "s", "j", "v", "d", "f", "z", "i", "m", "a", "g", "e", "o", "c"}

DigitVal(c) ==
    CASE c = "0" -> 0 [] c = "1" -> 1 [] c = "2" -> 2 [] c = "3" -> 3
      [] c = "4" -> 4 [] c = "5" -> 5 [] c = "6" -> 6 [] c = "7" -> 7
      [] c = "8" -> 8 [] c = "9" -> 9

DigitChar(d) ==
    CASE d = 0 -> "0" [] d = 1 -> "1" [] d = 2 -> "2" [] d = 3 -> "3"
      [] d = 4 -> "4" [] d = 5 -> "5" [] d = 6 -> "6" [] d = 7 -> "7"
      [] d = 8 -> "8" [] d = 9 -> "9"

\* F(x), with x evaluated once
With(x, F(_)) == CHOOSE r \in {F(v) : v \in {x}} : TRUE

\* s[a..b], empty when a > b
Slice(s, a, b) == IF a > b THEN <<>> ELSE SubSeq(s, a, b)

\* s.startswith(p)
StartsWith(s, p) == Len(s) >= Len(p) /\ SubSeq(s, 1, Len(p)) = p

\* the greatest and the least member of a non-empty set of numbers
Greatest(I) == CHOOSE i \in I : \A k \in I : k <= i
Least(I) == CHOOSE i \in I : \A k \in I : i <= k

\* the index of the last occurrence of character c in s, or 0
LastIndexOf(s, c) ==
    With(s, LAMBDA v :
        With({i \in 1..Len(v) : v[i] = c}, LAMBDA I :
            IF I = {} THEN 0 ELSE Greatest(I)))

\* the index of the first occurrence in s of a character of C, or Len(s) + 1
FirstIndexIn(s, C) ==
    With(s, LAMBDA v :
        With({i \in 1..Len(v) : v[i] \in C}, LAMBDA I :
            IF I = {} THEN Len(v) + 1 ELSE Least(I)))

\* the index of the first character of s that is not in C, or Len(s) + 1
FirstIndexNotIn(s, C) ==
    With(s, LAMBDA v :
        With({i \in 1..Len(v) : v[i] \notin C}, LAMBDA I :
            IF I = {} THEN Len(v) + 1 ELSE Least(I)))

\* int(s) for a non-empty run of decimal digits
RECURSIVE ParseInt(_)
ParseInt(s) ==
    IF s = <<>> THEN 0
    ELSE 10 * ParseInt(SubSeq(s, 1, Len(s) - 1)) + DigitVal(s[Len(s)])

\* str(n) for n >= 0
RECURSIVE IntToStr(_)
IntToStr(n) ==
    IF n < 10 THEN <<DigitChar(n)>>
    ELSE IntToStr(n \div 10) \o <<DigitChar(n % 10)>>

\* "{:04d}".format(n) for n >= 0: at least four digits, padded with zeros
RECURSIVE ZeroPad(_, _)
ZeroPad(s, width) == IF Len(s) >= width THEN s ELSE ZeroPad(<<"0">> \o s, width)

PadWidth == 4
Format04d(n) == ZeroPad(IntToStr(n), PadWidth)

\* the replacement field "{:04d}"
Placeholder == <<"{", ":", "0", "4", "d", "}">>

\* s.replace(old, new): every non-overlapping occurrence, left to right
RECURSIVE ReplaceAll(_, _, _)
ReplaceAll(s, old, new) ==
    IF s = <<>> \/ old = <<>> THEN s
    ELSE IF StartsWith(s, old)
         THEN new \o ReplaceAll(Slice(s, Len(old) + 1, Len(s)), old, new)
         ELSE <<s[1]>> \o ReplaceAll(Tail(s), old, new)

\* the number of non-overlapping occurrences of old in s
RECURSIVE CountOccurrences(_, _)
CountOccurrences(s, old) ==
    IF s = <<>> \/ old = <<>> THEN 0
    ELSE IF StartsWith(s, old)
         THEN 1 + CountOccurrences(Slice(s, Len(old) + 1, Len(s)), old)
         ELSE CountOccurrences(Tail(s), old)

\* re.search(r'(\d+)', url), the pattern without its lookahead: the first digit
\* run of the string
RegexMatchFirstRun(url) ==
    With(url, LAMBDA u :
        With(Slice(u, FirstIndexIn(u, Digit), Len(u)), LAMBDA rest :
            Slice(rest, 1, FirstIndexNotIn(rest, Digit) - 1)))

(***************************************************************************)
(* re.search(r'(\d+)(?=\.[^.]*$)', url): the digit run that ends right     *)
(* before the last "." of the string. RegexMatch is the matched group,    *)
(* or the empty string when there is no match.                            *)
(***************************************************************************)
RegexMatch(url) ==
    With(url, LAMBDA u :
        With(LastIndexOf(u, "."), LAMBDA dot :
            With({i \in 1..(dot - 1) : u[i] \notin Digit}, LAMBDA NonDigits :
                IF dot = 0 THEN <<>>
                ELSE Slice(u, IF NonDigits = {} THEN 1 ELSE 1 + Greatest(NonDigits),
                           dot - 1))))

(***************************************************************************)
(* urlparse(url).path and os.path.basename, for URLs without fragment,    *)
(* parameters or brackets.                                                *)
(***************************************************************************)
\* the URL after its scheme and the ":", when it has a scheme
UrlAfterScheme(url) ==
    With(url, LAMBDA u :
        With(FirstIndexIn(u, {":"}), LAMBDA colon :
            IF /\ colon <= Len(u)
               /\ colon > 1
               /\ \A i \in 1..(colon - 1) : u[i] \in Letter
            THEN Slice(u, colon + 1, Len(u))
            ELSE u))

\* what follows the network location, when the URL has one ("//host")
UrlAfterNetloc(rest) ==
    With(rest, LAMBDA r :
        IF StartsWith(r, <<"/", "/">>)
        THEN With(Slice(r, 3, Len(r)), LAMBDA tail :
                 Slice(tail, FirstIndexIn(tail, {"/", "?"}), Len(tail)))
        ELSE r)

UrlPath(url) ==
    With(UrlAfterNetloc(UrlAfterScheme(url)), LAMBDA rest :
        Slice(rest, 1, FirstIndexIn(rest, {"?"}) - 1))

Basename(path) ==
    With(path, LAMBDA q : Slice(q, LastIndexOf(q, "/") + 1, Len(q)))

\* os.path.basename(urlparse(url).path)
UrlFilename(url) == Basename(UrlPath(url))

(***************************************************************************)
(* Inputs of the model: the URLs and request bodies submitted.            *)
(***************************************************************************)
Http == <<"h", "t", "t", "p", ":", "/", "/">>

\* http://h/p<n>.j
PageUrl(n) == Http \o <<"h", "/", "p">> \o IntToStr(n) \o <<".", "j">>
\* http://h/<n>/p<n>.j : the digit run occurs twice
RecurUrl(n) ==
    Http \o <<"h", "/">> \o IntToStr(n) \o <<"/", "p">> \o IntToStr(n) \o <<".", "j">>
\* http://h/v?f=<n>.j : the digit run lies in the query, not in the path
QueryUrl(n) == Http \o <<"h", "/", "v", "?", "f", "=">> \o IntToStr(n) \o <<".", "j">>
\* http://h/1/p.j : digits, but no digit run before the extension
PlainUrl == Http \o <<"h", "/", "1", "/", "p", ".", "j">>
\* http://h/ : empty final path segment
RootUrl == Http \o <<"h", "/">>
\* p1.j : no scheme
BareUrl == <<"p", "1", ".", "j">>

Pdf == <<"p", "d", "f">>
Zip == <<"z", "i", "p">>
Tar == <<"t", "a", "r">>
DocName == <<"d">>

BatchRequest(s, e, f) ==
    [start_url |-> s, end_url |-> e, output_name |-> DocName, output_format |-> f]

\* well-formed requests: ranges of one, two and MaxPage pages, a reversed range,
\* a start URL whose digit run recurs, one whose digit run is not in the path, and
\* URLs without a digit run
ValidBatchRequests ==
    {BatchRequest(PageUrl(1), PageUrl(MaxPage), Zip),
     BatchRequest(PageUrl(1), PageUrl(1), Zip),
     BatchRequest(PageUrl(2), PageUrl(3), Pdf),
     BatchRequest(PageUrl(2), PageUrl(1), Pdf),
     BatchRequest(RecurUrl(1), PageUrl(2), Zip),
     BatchRequest(QueryUrl(1), PageUrl(2), Zip),
     BatchRequest(QueryUrl(1), PageUrl(2), Pdf),
     BatchRequest(PlainUrl, PageUrl(2), Pdf),
     BatchRequest(PageUrl(1), PlainUrl, Zip)}

BatchRequests ==
    ValidBatchRequests
      \cup {BatchRequest(<<>>, PageUrl(2), Pdf), BatchRequest(PageUrl(1), <<>>, Zip),
            BatchRequest(PageUrl(1), PageUrl(2), Tar)}

SingleUrls == {PageUrl(1), RootUrl, BareUrl, <<>>}

(***************************************************************************)
(* State                                                                   *)
(***************************************************************************)
VARIABLES
    active_downloads,   \* the registry: download id -> DownloadManager
    workers,            \* download id -> the worker thread's arguments, locals and position
    events,             \* download id -> the 'download_progress' payloads emitted for it
    downloads,          \* the directory ./downloads: file name -> file
    trace,              \* download id -> the calls the worker made (fetches, packagers)
    faults              \* the kinds of environment fault that can occur in this behaviour

vars == <<active_downloads, workers, events, downloads, trace, faults>>

JobIds == 1..MaxJobs

EmptyFn == [x \in {} |-> 0]
None == <<>>
FaultKinds == {"fs", "cleanup"}

DownloadManager ==
    [is_downloading |-> FALSE, progress |-> 0, total |-> 0, status |-> "ready"]

NewWorker(mode) ==
    [mode |-> mode, pc |-> "start",
     url |-> <<>>, start_url |-> <<>>, end_url |-> <<>>,
     output_name |-> <<>>, output_format |-> <<>>,
     url_template |-> <<>>, start_num |-> 0, end_num |-> 0, total_pages |-> 0,
     i |-> 0, downloaded_images |-> <<>>, valid_images |-> <<>>,
     has_temp |-> FALSE, temp_dir |-> EmptyFn]

NewTrace == [fetches |-> <<>>, packagers |-> <<>>]

InitWith(F) ==
    /\ active_downloads = EmptyFn
    /\ workers = EmptyFn
    /\ events = EmptyFn
    /\ downloads = EmptyFn
    /\ trace = EmptyFn
    /\ faults = F

Init == InitWith({})

(***************************************************************************)
(* DownloadManager.emit_progress. socketio.emit is taken to return.        *)
(***************************************************************************)
\* the fields emit_progress sets before it builds the payload
Updated(m, progress, status) == [m EXCEPT !.progress = progress, !.status = status]

\* the payload; item is the "(i+1/total)" of a per-item message, 0 elsewhere,
\* and filename is empty when the payload has no 'filename' key
Payload(m, message, item, filename) ==
    [message |-> message, item |-> item, progress |-> m.progress, total |-> m.total,
     status |-> m.status, filename |-> filename]

\* one manager object shared by the workers: every registered identifier names it
CommitShared(j, m, w, evs) ==
    /\ active_downloads' = [k \in DOMAIN active_downloads |-> m]
    /\ workers' = [workers EXCEPT ![j] = w]
    /\ events' = [events EXCEPT ![j] = @ \o evs]

\* the worker's step commits: the manager, the worker's locals, the events emitted
Commit(j, m, w, evs) ==
    /\ active_downloads' = [active_downloads EXCEPT ![j] = m]
    /\ workers' = [workers EXCEPT ![j] = w]
    /\ events' = [events EXCEPT ![j] = @ \o evs]

\* manager.emit_progress(message, progress, status, filename), the worker going on as w
EmitProgress(j, m, message, item, progress, status, filename, w) ==
    LET m2 == Updated(m, progress, status)
    IN  Commit(j, m2, w, <<Payload(m2, message, item, filename)>>)

(***************************************************************************)
(* extract_url_pattern                                                     *)
(***************************************************************************)
ExtractUrlPattern(start_url, end_url) ==
    With(RegexMatch(start_url), LAMBDA start_match :
        With(RegexMatch(end_url), LAMBDA end_match :
            [raises |-> (start_match = <<>> \/ end_match = <<>>),
             url_template |-> ReplaceAll(start_url, start_match, Placeholder),
             start_num |-> ParseInt(start_match),
             end_num |-> ParseInt(end_match)]))

\* url_template.format(page_num) raises IndexError when the template holds more
\* than one replacement field: only one argument is given
FormatRaises(url_template) == CountOccurrences(url_template, Placeholder) > 1

\* url_template.format(page_num)
FormatUrl(url_template, page_num) ==
    ReplaceAll(url_template, Placeholder, Format04d(page_num))

(***************************************************************************)
(* download_image_to_temp. The bytes a URL serves are identified with the  *)
(* URL; the temporary directory maps a file name to the bytes it holds.    *)
(***************************************************************************)
\* requests.get needs an http URL; open() needs a file name
FetchOutcomes(url) ==
    With(url, LAMBDA u :
        IF StartsWith(u, Http) /\ UrlFilename(u) # <<>> THEN {"ok", "fail"} ELSE {"fail"})

DownloadImageToTemp(url, temp_dir, outcome) ==
    With(UrlFilename(url), LAMBDA filename :
        IF outcome = "ok"
        THEN [path |-> filename, temp_dir |-> (filename :> url) @@ temp_dir]
        ELSE [path |-> None, temp_dir |-> temp_dir])

(***************************************************************************)
(* The packagers. A file of ./downloads is [owner, entries, complete]:    *)
(* the job that wrote it, what it holds, and whether it was written whole. *)
(***************************************************************************)
\* output_filename = output_name: the extension is left out
OutputFilenameNoExtension(output_name, extension) == output_name

\* f"{output_name}.pdf", f"{output_name}.zip"
OutputFilename(output_name, extension) == output_name \o <<".">> \o extension

Outcome(kind, at) == [kind |-> kind, at |-> at]

\* the paths a packager takes: "if img_path and os.path.exists(img_path)"
Existing(image_paths, temp_dir) ==
    SelectSeq(image_paths, LAMBDA q : q # None /\ q \in DOMAIN temp_dir)

\* zipfile.ZipFile(output_path, 'w') can fail to open the file, and each
\* zipf.write can fail
ZipOutcomes(image_paths) ==
    {Outcome("ok", 0), Outcome("open_error", 0)}
      \cup {Outcome("write_error", k) : k \in 1..Len(image_paths)}

ZipEntry(img_path, temp_dir) == [name |-> Basename(img_path), data |-> temp_dir[img_path]]

ImagesToZip(image_paths, output_path, temp_dir, files, j, o) ==
    LET taken == Existing(image_paths, temp_dir)
        all == [k \in 1..Len(taken) |-> ZipEntry(taken[k], temp_dir)]
        written == IF o.kind = "write_error" THEN Slice(all, 1, o.at - 1) ELSE all
    IN  IF o.kind = "open_error"
        THEN [success |-> FALSE, files |-> files]
        ELSE [success |-> (o.kind = "ok"),
              files |-> (output_path :> [owner |-> j, entries |-> written,
                                         complete |-> (o.kind = "ok")]) @@ files]

\* Image.open can fail on any image; Image.save can fail while it writes, and then
\* leaves the file it opened, or removes it when it had created it (the library's
\* versions differ)
PdfOutcomes ==
    {Outcome("ok", 0), Outcome("decode_error", 0), Outcome("save_error", 0),
     Outcome("save_error_removed", 0)}

PdfPage(img_path, temp_dir) == [name |-> <<>>, data |-> temp_dir[img_path]]

ImagesToPdf(image_paths, output_path, temp_dir, files, j, o) ==
    LET taken == Existing(image_paths, temp_dir)
        images == [k \in 1..Len(taken) |-> PdfPage(taken[k], temp_dir)]
        partial == [owner |-> j, entries |-> <<>>, complete |-> FALSE]
    IN  IF o.kind = "decode_error" \/ images = <<>>
        THEN [success |-> FALSE, files |-> files]
        ELSE IF o.kind = "ok"
        THEN [success |-> TRUE,
              files |-> (output_path :> [owner |-> j, entries |-> images,
                                         complete |-> TRUE]) @@ files]
        ELSE IF o.kind = "save_error_removed" /\ output_path \notin DOMAIN files
        THEN [success |-> FALSE, files |-> files]
        ELSE [success |-> FALSE, files |-> (output_path :> partial) @@ files]

(***************************************************************************)
(* The routes /api/download/single and /api/download/batch                 *)
(***************************************************************************)
Https == <<"h", "t", "t", "p", "s", ":", "/", "/">>

\* an identifier drawn from a counter that is not advanced: the call returns the
\* identifier of the last registration again
NewIdRepeated ==
    IF active_downloads = EmptyFn THEN Cardinality({EmptyFn})
    ELSE Cardinality(DOMAIN active_downloads)

\* str(uuid.uuid4()): an identifier no earlier call returned
NewId == Cardinality(DOMAIN active_downloads) + 1

\* the registration of a manager and the start of its thread
Register(w) ==
    /\ active_downloads' = (NewId :> DownloadManager) @@ active_downloads
    /\ workers' = (NewId :> w) @@ workers
    /\ events' = (NewId :> <<>>) @@ events
    /\ trace' = (NewId :> NewTrace) @@ trace
    /\ UNCHANGED <<downloads, faults>>

\* "if not url" alone: the scheme is not looked at
SingleRejectedEmptyOnly(url) == url = <<>>

SingleRejected(url) == url = <<>> \/ ~(StartsWith(url, Http) \/ StartsWith(url, Https))

\* a rejected request is answered 400 and changes nothing
download_single(url) ==
    /\ ~SingleRejected(url)
    /\ NewId \in JobIds
    /\ Register([NewWorker("single") EXCEPT !.url = url])

BatchRejected(req) ==
    \/ req.start_url = <<>>
    \/ req.end_url = <<>>
    \/ req.output_format \notin {Pdf, Zip}

download_batch(req) ==
    /\ ~BatchRejected(req)
    /\ NewId \in JobIds
    /\ Register([NewWorker("batch") EXCEPT !.start_url = req.start_url,
                                           !.end_url = req.end_url,
                                           !.output_name = req.output_name,
                                           !.output_format = req.output_format])

(***************************************************************************)
(* Environment: what the file system calls can do                          *)
(***************************************************************************)
\* Path("./downloads").mkdir and open() under ./downloads
FsOutcomes == IF "fs" \in faults THEN {"ok", "raise"} ELSE {"ok"}
\* TemporaryDirectory.cleanup
CleanupOutcomes == IF "cleanup" \in faults THEN {"ok", "raise"} ELSE {"ok"}

At(j, mode, pc) ==
    /\ j \in DOMAIN workers
    /\ workers[j].mode = mode
    /\ workers[j].pc = pc

(***************************************************************************)
(* download_single_worker                                                  *)
(***************************************************************************)
DefaultFilename == <<"i", "m", "a", "g", "e", ".", "j", "p", "g">>

\* os.path.basename(urlparse(url).path) alone: no default name
SingleFilenameNoDefault(url) == UrlFilename(url)

\* os.path.basename(urlparse(url).path) or "image.jpg"
SingleFilename(url) ==
    With(UrlFilename(url), LAMBDA filename :
        IF filename = <<>> THEN DefaultFilename ELSE filename)

\* lines 118-120
SingleStart(j) ==
    /\ At(j, "single", "start")
    /\ EmitProgress(j, [active_downloads[j] EXCEPT !.is_downloading = TRUE, !.total = 1],
                    "starting", 0, 0, "downloading", <<>>,
                    [workers[j] EXCEPT !.pc = "fetch"])
    /\ UNCHANGED <<downloads, trace, faults>>

\* lines 122-132: mkdir (outcome mk), requests.get and raise_for_status (outcome
\* f), open and write (outcome wr), and the emit of the completed event
SingleFetch(j) ==
    /\ At(j, "single", "fetch")
    /\ \E mk \in FsOutcomes, f \in {"ok", "fail"}, wr \in FsOutcomes :
         LET m == active_downloads[j]
             w == workers[j]
             filename == SingleFilename(w.url)
             saved == [owner |-> j, entries |-> <<[name |-> filename, data |-> w.url]>>,
                       complete |-> TRUE]
         IN  IF mk = "raise"
             THEN /\ Commit(j, m, [w EXCEPT !.pc = "except"], <<>>)
                  /\ UNCHANGED <<trace, downloads>>
             ELSE IF f = "fail" \/ wr = "raise"
             THEN /\ Commit(j, m, [w EXCEPT !.pc = "except"], <<>>)
                  /\ trace' = [trace EXCEPT ![j].fetches =
                                 Append(@, [url |-> w.url, ok |-> (f = "ok")])]
                  /\ UNCHANGED downloads
             ELSE /\ EmitProgress(j, m, "saved", 0, 1, "completed", filename,
                                  [w EXCEPT !.pc = "finally"])
                  /\ trace' = [trace EXCEPT ![j].fetches =
                                 Append(@, [url |-> w.url, ok |-> TRUE])]
                  /\ downloads' = (filename :> saved) @@ downloads
    /\ UNCHANGED faults

\* lines 134-135
SingleExcept(j) ==
    /\ At(j, "single", "except")
    /\ EmitProgress(j, active_downloads[j], "download_failed", 0, 0, "error", <<>>,
                    [workers[j] EXCEPT !.pc = "finally"])
    /\ UNCHANGED <<downloads, trace, faults>>

(***************************************************************************)
(* download_batch_worker                                                   *)
(***************************************************************************)
\* "if start_num > end_num + 1": the comparison off by one
RangeRejectedOffByOne(start_num, end_num) == start_num > end_num + 1

\* "if start_num > end_num"
RangeRejected(start_num, end_num) == start_num > end_num

\* "total_pages = end_num - start_num": the last page is not counted
TotalPagesOffByOne(start_num, end_num) == end_num - start_num

\* "total_pages = end_num - start_num + 1"
TotalPages(start_num, end_num) == end_num - start_num + 1

\* "for i, page_num in enumerate(range(start_num, end_num + 1))" is exhausted
LoopDone(i, total_pages) == i >= total_pages

\* the page the iteration i (from 0) of the loop fetches
PageNum(start_num, i) == start_num + i

\* the progress argument of the per-item emit_progress
ItemProgress(i) == i

\* "valid_images = downloaded_images": the failed downloads are not filtered out
ValidImagesUnfiltered(downloaded_images) == downloaded_images

\* "valid_images = [img for img in downloaded_images if img is not None]"
ValidImages(downloaded_images) == SelectSeq(downloaded_images, LAMBDA q : q # None)

\* "if not valid_images"
NothingDownloaded(valid_images) == valid_images = <<>>

\* the temporary directory removed at the end of the block only, not when an
\* exception leaves it (a mkdtemp with an rmtree as the last statement)
LeaveWithoutCleanup(w, c, raising, pc) ==
    [w EXCEPT !.temp_dir = IF c = "ok" /\ ~raising THEN EmptyFn ELSE @,
              !.has_temp = (c # "ok" \/ raising),
              !.pc = IF raising \/ c = "raise" THEN "except" ELSE pc]

\* "with tempfile.TemporaryDirectory() as temp_dir" is left, by the end of the
\* block or a return (raising = FALSE) or by an exception (raising = TRUE), with the
\* outcome c of the cleanup; an exception, of the block or of the cleanup, is caught
\* by the worker's "except Exception"
LeaveWith(w, c, raising, pc) ==
    [w EXCEPT !.temp_dir = IF c = "ok" THEN EmptyFn ELSE @,
              !.has_temp = (c # "ok"),
              !.pc = IF raising \/ c = "raise" THEN "except" ELSE pc]

\* line 143 without line 142: is_downloading is not set
BatchAnalyzeFlagUnset(j) ==
    /\ At(j, "batch", "start")
    /\ EmitProgress(j, active_downloads[j],
                    "analyzing", 0, 0, "downloading", <<>>,
                    [workers[j] EXCEPT !.pc = "extract"])
    /\ UNCHANGED <<downloads, trace, faults>>

\* lines 142-143
BatchAnalyze(j) ==
    /\ At(j, "batch", "start")
    /\ EmitProgress(j, [active_downloads[j] EXCEPT !.is_downloading = TRUE],
                    "analyzing", 0, 0, "downloading", <<>>,
                    [workers[j] EXCEPT !.pc = "extract"])
    /\ UNCHANGED <<downloads, trace, faults>>

\* lines 146-159
BatchExtract(j) ==
    /\ At(j, "batch", "extract")
    /\ LET m == active_downloads[j]
           w == workers[j]
           pat == ExtractUrlPattern(w.start_url, w.end_url)
           total_pages == TotalPages(pat.start_num, pat.end_num)
           w2 == [w EXCEPT !.url_template = pat.url_template,
                           !.start_num = pat.start_num,
                           !.end_num = pat.end_num]
       IN  IF pat.raises
           THEN Commit(j, m, [w EXCEPT !.pc = "except"], <<>>)
           ELSE IF RangeRejected(pat.start_num, pat.end_num)
           THEN EmitProgress(j, m, "range_error", 0, 0, "error", <<>>,
                             [w2 EXCEPT !.pc = "finally"])
           ELSE EmitProgress(j, [m EXCEPT !.total = total_pages], "downloading_pages", 0,
                             0, "downloading", <<>>,
                             [w2 EXCEPT !.total_pages = total_pages, !.pc = "loop",
                                        !.has_temp = TRUE, !.i = 0,
                                        !.downloaded_images = <<>>])
    /\ UNCHANGED <<downloads, trace, faults>>

\* lines 162-169: one iteration of the loop
BatchIteration(j) ==
    /\ At(j, "batch", "loop")
    /\ ~LoopDone(workers[j].i, workers[j].total_pages)
    /\ \E c \in CleanupOutcomes, f \in {"ok", "fail"} :
         LET m == active_downloads[j]
             w == workers[j]
             page_num == PageNum(w.start_num, w.i)
             current_url == FormatUrl(w.url_template, page_num)
             got == DownloadImageToTemp(current_url, w.temp_dir, f)
         IN  IF FormatRaises(w.url_template)
             THEN /\ Commit(j, m, LeaveWith(w, c, TRUE, "except"), <<>>)
                  /\ UNCHANGED trace
             ELSE /\ f \in FetchOutcomes(current_url)
                  /\ EmitProgress(j, m, "item", w.i + 1, ItemProgress(w.i), "downloading",
                                  <<>>,
                                  [w EXCEPT !.i = @ + 1,
                                            !.downloaded_images = Append(@, got.path),
                                            !.temp_dir = got.temp_dir])
                  /\ trace' = [trace EXCEPT ![j].fetches =
                                 Append(@, [url |-> current_url, ok |-> (f = "ok")])]
    /\ UNCHANGED <<downloads, faults>>

\* lines 172-178
BatchFilter(j) ==
    /\ At(j, "batch", "loop")
    /\ LoopDone(workers[j].i, workers[j].total_pages)
    /\ \E c \in CleanupOutcomes :
         LET m == active_downloads[j]
             w == [workers[j] EXCEPT
                     !.valid_images = ValidImages(workers[j].downloaded_images)]
         IN  IF NothingDownloaded(w.valid_images)
             THEN EmitProgress(j, m, "none_downloaded", 0, 0, "error", <<>>,
                               LeaveWith(w, c, FALSE, "finally"))
             ELSE EmitProgress(j, m, "downloaded", 0, w.total_pages, "converting", <<>>,
                               [w EXCEPT !.pc = "convert"])
    /\ UNCHANGED <<downloads, trace, faults>>

\* lines 181-186 and 194-196
BatchConvert(j) ==
    /\ At(j, "batch", "convert")
    /\ \E c \in CleanupOutcomes, k \in FsOutcomes :
         LET m == active_downloads[j]
             w == workers[j]
         IN  IF k = "raise"
             THEN Commit(j, m, LeaveWith(w, c, TRUE, "except"), <<>>)
             ELSE EmitProgress(j, m, "converting", 0, w.total_pages, "converting", <<>>,
                               [w EXCEPT !.pc = "package"])
    /\ UNCHANGED <<downloads, trace, faults>>

\* what the packager of the format can do
PackagerOutcomes(output_format, image_paths) ==
    IF output_format = Pdf THEN PdfOutcomes ELSE ZipOutcomes(image_paths)

\* images_to_pdf or images_to_zip, by the format
Package(output_format, image_paths, output_path, temp_dir, files, j, r) ==
    IF output_format = Pdf
    THEN ImagesToPdf(image_paths, output_path, temp_dir, files, j, r)
    ELSE ImagesToZip(image_paths, output_path, temp_dir, files, j, r)

\* lines 188-191 and 198-201, and the end of the with block
BatchPackage(j) ==
    /\ At(j, "batch", "package")
    /\ \E c \in CleanupOutcomes,
          r \in PackagerOutcomes(workers[j].output_format, workers[j].valid_images) :
         LET m == active_downloads[j]
             w == workers[j]
             output_filename == OutputFilename(w.output_name, w.output_format)
             res == Package(w.output_format, w.valid_images, output_filename, w.temp_dir,
                            downloads, j, r)
         IN  /\ downloads' = res.files
             /\ trace' = [trace EXCEPT ![j].packagers =
                            Append(@, [format |-> w.output_format,
                                       image_paths |-> w.valid_images,
                                       success |-> res.success])]
             /\ IF res.success
                THEN EmitProgress(j, m, "created", 0, w.total_pages, "completed",
                                  output_filename, LeaveWith(w, c, FALSE, "finally"))
                ELSE EmitProgress(j, m, "create_failed", 0, w.total_pages, "error", <<>>,
                                  LeaveWith(w, c, FALSE, "finally"))
    /\ UNCHANGED faults

\* the handler without its emit_progress: "except Exception: pass"
BatchExceptSilent(j) ==
    /\ At(j, "batch", "except")
    /\ Commit(j, active_downloads[j], [workers[j] EXCEPT !.pc = "finally"], <<>>)
    /\ UNCHANGED <<downloads, trace, faults>>

\* lines 203-204
BatchExcept(j) ==
    /\ At(j, "batch", "except")
    /\ EmitProgress(j, active_downloads[j], "batch_failed", 0, 0, "error", <<>>,
                    [workers[j] EXCEPT !.pc = "finally"])
    /\ UNCHANGED <<downloads, trace, faults>>

\* lines 136-137 and 205-206: "finally: manager.is_downloading = False"
WorkerFinally(j) ==
    /\ j \in DOMAIN workers
    /\ workers[j].pc = "finally"
    /\ Commit(j, [active_downloads[j] EXCEPT !.is_downloading = FALSE],
              [workers[j] EXCEPT !.pc = "done"], <<>>)
    /\ UNCHANGED <<downloads, trace, faults>>

WorkerStep(j) ==
    \/ SingleStart(j)
    \/ SingleFetch(j)
    \/ SingleExcept(j)
    \/ BatchAnalyze(j)
    \/ BatchExtract(j)
    \/ BatchIteration(j)
    \/ BatchFilter(j)
    \/ BatchConvert(j)
    \/ BatchPackage(j)
    \/ BatchExcept(j)
    \/ WorkerFinally(j)

Next ==
    \/ \E url \in SingleUrls : download_single(url)
    \/ \E req \in BatchRequests : download_batch(req)
    \/ \E j \in JobIds : WorkerStep(j)

\* the environment never faults
Spec == Init /\ [][Next]_vars

\* the calls on ./downloads can fail
InitFs == InitWith({"fs"})
SpecFs == InitFs /\ [][Next]_vars

\* the cleanup of the temporary directory can fail
InitCleanup == InitWith({"cleanup"})
SpecCleanup == InitCleanup /\ [][Next]_vars

\* the workers are scheduled fairly and every call of a worker returns
FairSpec == Spec /\ \A j \in JobIds : WF_vars(WorkerStep(j))

(***************************************************************************)
(* Vocabulary of the properties                                            *)
(***************************************************************************)
Jobs == DOMAIN workers
BatchJobs == {j \in Jobs : workers[j].mode = "batch"}

Terminal(e) == e.status \in {"completed", "error"}
TerminalAt(j) == {k \in 1..Len(events[j]) : Terminal(events[j][k])}
HasTerminal(j) == TerminalAt(j) # {}
LastStatus(j) == IF events[j] = <<>> THEN "none" ELSE events[j][Len(events[j])].status
ItemEvents(j) == SelectSeq(events[j], LAMBDA e : e.message = "item")
Finished(j) == workers[j].pc = "done"

\* the extractor returned a range, and the range is in order
RangeExtracted(j) == workers[j].url_template # <<>>
ValidRange(j) == RangeExtracted(j) /\ workers[j].start_num <= workers[j].end_num
RangeSize(j) == workers[j].end_num - workers[j].start_num + 1

\* the fetches of the job, and the URLs fetched with success, in the order of the calls
Fetches(j) == trace[j].fetches
SuccessfulUrls(j) ==
    LET ok == SelectSeq(Fetches(j), LAMBDA x : x.ok)
    IN  [k \in 1..Len(ok) |-> ok[k].url]
Failures(j) == Len(SelectSeq(Fetches(j), LAMBDA x : ~x.ok))

\* the files of ./downloads the job wrote, whole or in part
FilesOf(j) == {n \in DOMAIN downloads : downloads[n].owner = j}
OutFile(j) == OutputFilename(workers[j].output_name, workers[j].output_format)
ArtifactData(file) == [k \in 1..Len(file.entries) |-> file.entries[k].data]

\* the URL has no digit right before its last "."
NoDigitRun(url) ==
    \A d \in 1..Len(url) :
        (url[d] = "." /\ \A k \in (d + 1)..Len(url) : url[k] # ".")
          => (d = 1 \/ url[d - 1] \notin Digit)

(***************************************************************************)
(* Properties                                                              *)
(***************************************************************************)

\* C1: a batch job whose extracted range has start <= end emits one per-item
\* event for each index of the range, in ascending order of the index, and all of
\* them before any terminal event: once a terminal event is in the stream, the
\* stream holds exactly end - start + 1 per-item events.
C1_ItemEventsBeforeTerminal ==
    \A j \in BatchJobs :
        ValidRange(j) =>
            LET items == ItemEvents(j)
            IN  /\ \A k \in 1..Len(items) : items[k].item = k
                /\ \A a, b \in 1..Len(events[j]) :
                       Terminal(events[j][a]) /\ events[j][b].message = "item" => b < a
                /\ HasTerminal(j) => Len(items) = RangeSize(j)

\* C2: when the packager of a batch job in which a fetch succeeded has reported
\* success, ./downloads holds the job's artifact, written whole, and the artifact
\* holds exactly the items fetched with success, each once, in index order.
C2_ArtifactHoldsFetchedItems ==
    [][\A j \in BatchJobs :
          (/\ workers[j].pc = "package"
           /\ workers'[j].pc # "package"
           /\ LastStatus(j)' = "completed")
          => /\ OutFile(j) \in DOMAIN downloads'
             /\ downloads'[OutFile(j)].owner = j
             /\ downloads'[OutFile(j)].complete
             /\ ArtifactData(downloads'[OutFile(j)]) = SuccessfulUrls(j)']_vars

\* C3: in a batch job in which every fetch failed no packager is called, no file
\* is written under ./downloads, no converting event is emitted, and the event
\* the worker ends on has status error.
C3_AllFailedNoPackaging ==
    \A j \in BatchJobs :
        (\A k \in 1..Len(Fetches(j)) : ~Fetches(j)[k].ok) =>
            /\ trace[j].packagers = <<>>
            /\ FilesOf(j) = {}
            /\ \A k \in 1..Len(events[j]) : events[j][k].status # "converting"
            /\ workers[j].pc \in {"finally", "done"} =>
                  /\ LastStatus(j) = "error"
                  /\ Cardinality(TerminalAt(j)) = 1

\* C3, witness: a job has ended after the fetches of a range of two or more
\* pages have all failed.
C3_Witness ==
    \E j \in BatchJobs :
        /\ Finished(j)
        /\ Len(Fetches(j)) = RangeSize(j)
        /\ Len(Fetches(j)) >= 2
        /\ \A k \in 1..Len(Fetches(j)) : ~Fetches(j)[k].ok

\* C4: a failed fetch does not end the batch: when the worker of a job with a
\* range in order has ended, every index of the range has been fetched once, in
\* order, a failed fetch is recorded as absent, and when a fetch succeeded and the
\* packager reported success the job has ended on a completed event.
C4_EveryIndexFetched ==
    \A j \in BatchJobs :
        ValidRange(j) /\ Finished(j) =>
            /\ Len(Fetches(j)) = RangeSize(j)
            /\ \A k \in 1..Len(Fetches(j)) :
                   Fetches(j)[k].url
                     = FormatUrl(workers[j].url_template, workers[j].start_num + k - 1)
            /\ Len(workers[j].downloaded_images) = Len(Fetches(j))
            /\ \A k \in 1..Len(Fetches(j)) :
                   (workers[j].downloaded_images[k] = None) <=> ~Fetches(j)[k].ok
            /\ (\E k \in 1..Len(trace[j].packagers) : trace[j].packagers[k].success)
                  => LastStatus(j) = "completed"

C6_EveryJobTerminates ==
    \A j \in JobIds :
        (j \in Jobs) ~> (j \in Jobs /\ Finished(j) /\ Terminal(events[j][Len(events[j])]))

\* C6, witness: a worker has ended on a terminal error event after an exception
\* (the format of the URL template raised).
C6_Witness ==
    \E j \in BatchJobs :
        /\ Finished(j)
        /\ LastStatus(j) = "error"
        /\ events[j][Len(events[j])].message = "batch_failed"
        /\ ~active_downloads[j].is_downloading

\* C7: a batch job whose start index is greater than its end index makes no
\* fetch and no packager call and writes no file, and once the range is
\* extracted its stream is the analyzing event followed by one terminal event
\* of status error, on which the worker ends.
C7_ReversedRangeRejected ==
    \A j \in BatchJobs :
        RangeExtracted(j) /\ workers[j].start_num > workers[j].end_num =>
            /\ Fetches(j) = <<>>
            /\ trace[j].packagers = <<>>
            /\ FilesOf(j) = {}
            /\ workers[j].pc \in {"finally", "done"}
            /\ Len(events[j]) = 2
            /\ LastStatus(j) = "error"
            /\ Cardinality(TerminalAt(j)) = 1

\* C7, witness: the worker of a job submitted with start 2 and end 1 has ended.
C7_Witness ==
    \E j \in BatchJobs :
        /\ Finished(j)
        /\ workers[j].start_num = 2
        /\ workers[j].end_num = 1
        /\ LastStatus(j) = "error"

\* C8: a batch job whose start URL or end URL has no digit run right before the
\* last "." makes no fetch and no packager call and writes no file, and the
\* worker, once past the extraction, has emitted one terminal event, of status
\* error, as its last event.
C8_NoPatternRejected ==
    \A j \in BatchJobs :
        NoDigitRun(workers[j].start_url) \/ NoDigitRun(workers[j].end_url) =>
            /\ Fetches(j) = <<>>
            /\ trace[j].packagers = <<>>
            /\ FilesOf(j) = {}
            /\ workers[j].pc \in {"start", "extract", "except", "finally", "done"}
            /\ workers[j].pc \in {"finally", "done"} =>
                  /\ LastStatus(j) = "error"
                  /\ Cardinality(TerminalAt(j)) = 1

\* C8, witness: the worker of a job whose end URL alone lacks the digit run has
\* ended.
C8_Witness ==
    \E j \in BatchJobs :
        /\ Finished(j)
        /\ ~NoDigitRun(workers[j].start_url)
        /\ NoDigitRun(workers[j].end_url)
        /\ LastStatus(j) = "error"

\* C9: after a packager call of the job that returned failure, the job ends on
\* status error and ./downloads holds no file, whole or partial, that the job
\* wrote.
C9_NoFileAfterFailedPackaging ==
    \A j \in BatchJobs :
        (\E k \in 1..Len(trace[j].packagers) : ~trace[j].packagers[k].success) =>
            /\ FilesOf(j) = {}
            /\ Finished(j) => LastStatus(j) = "error"

\* C10: when the worker of a batch job has left the with block (it is in its
\* exception handler, in its finally clause, or has ended), the temporary
\* directory of the job and the items in it are gone.
C10_TemporaryStorageReleased ==
    \A j \in BatchJobs :
        workers[j].pc \in {"except", "finally", "done"} =>
            /\ ~workers[j].has_temp
            /\ DOMAIN workers[j].temp_dir = {}

\* C10, witness: a worker has ended after an exception raised in the with block
\* (the creation of ./downloads failed) while the temporary directory held a
\* fetched item.
C10_Witness ==
    \E j \in BatchJobs :
        /\ Finished(j)
        /\ \E k \in 1..Len(Fetches(j)) : Fetches(j)[k].ok
        /\ trace[j].packagers = <<>>
        /\ events[j][Len(events[j])].message = "batch_failed"

\* C11: a step that submits a request is a step of a request that passes the
\* validation (single: the URL is not empty and starts with http:// or https://;
\* batch: both URLs are not empty and the format is pdf or zip); a submission
\* step adds one identifier to the registry, with a manager in its initial state,
\* one worker at its start and no event, and leaves every other job as it was;
\* and no step adds a job whose request fails the validation.
C11_ValidationGuardsRegistry ==
    [][/\ \A url \in SingleUrls :
            download_single(url)
              => url # <<>> /\ (StartsWith(url, Http) \/ StartsWith(url, Https))
       /\ \A req \in BatchRequests :
            download_batch(req)
              => /\ req.start_url # <<>>
                 /\ req.end_url # <<>>
                 /\ req.output_format \in {Pdf, Zip}
       /\ ((\E url \in SingleUrls : download_single(url))
             \/ (\E req \in BatchRequests : download_batch(req)))
            => \E j \in JobIds \ Jobs :
                  /\ DOMAIN active_downloads' = Jobs \cup {j}
                  /\ DOMAIN workers' = Jobs \cup {j}
                  /\ DOMAIN events' = Jobs \cup {j}
                  /\ active_downloads'[j] = DownloadManager
                  /\ workers'[j].pc = "start"
                  /\ events'[j] = <<>>
                  /\ \A k \in Jobs :
                         /\ active_downloads'[k] = active_downloads[k]
                         /\ workers'[k] = workers[k]
                         /\ events'[k] = events[k]
       /\ \A j \in (DOMAIN workers' \cup DOMAIN active_downloads' \cup DOMAIN events')
                       \ Jobs :
            IF workers'[j].mode = "single"
            THEN /\ workers'[j].url # <<>>
                 /\ StartsWith(workers'[j].url, Http) \/ StartsWith(workers'[j].url, Https)
            ELSE /\ workers'[j].start_url # <<>>
                 /\ workers'[j].end_url # <<>>
                 /\ workers'[j].output_format \in {Pdf, Zip}]_vars

\* C11, witness: a single job and a batch job are registered, while the requests
\* offered hold an empty URL, a URL without scheme and a format that is not known.
C11_Witness ==
    /\ \E j, k \in Jobs : workers[j].mode = "single" /\ workers[k].mode = "batch"
    /\ \E url \in SingleUrls : url # <<>> /\ SingleRejected(url)
    /\ <<>> \in SingleUrls
    /\ \E req \in BatchRequests : req.output_format \notin {Pdf, Zip}
    /\ \E req \in BatchRequests : req.start_url = <<>> \/ req.end_url = <<>>

\* C12: a step of the worker of a job changes neither the manager, nor the event
\* stream, nor the worker of any other job, nor the set of registered identifiers;
\* this holds for the steps on which the worker fails as for the others.
C12_JobsIsolated ==
    [][\A j \in Jobs :
          WorkerStep(j) =>
              /\ DOMAIN active_downloads' = DOMAIN active_downloads
              /\ \A k \in Jobs \ {j} :
                     /\ active_downloads'[k] = active_downloads[k]
                     /\ events'[k] = events[k]
                     /\ workers'[k] = workers[k]]_vars

\* C12, witness: two jobs are registered, one has failed (its stream ends on an
\* error event and its worker has ended) while the other is still running.
C12_Witness ==
    \E j, k \in Jobs :
        /\ j # k
        /\ Finished(j)
        /\ LastStatus(j) = "error"
        /\ active_downloads[k].is_downloading
        /\ active_downloads[k].status \in {"downloading", "converting"}

\* C13: the stream of a single job is a downloading event followed, when the
\* worker is past its try block, by exactly one terminal event. The terminal
\* event is completed only when the fetch succeeded and the file was written under
\* ./downloads, and then it carries progress 1 and the last segment of the URL's
\* path as filename, or image.jpg when that segment is empty; it is error, with
\* progress 0 and no filename, when the fetch or the write did not succeed.
C13_SingleJobStream ==
    \A j \in Jobs :
        workers[j].mode = "single" =>
            LET ev == events[j]
                url == workers[j].url
                segment == Basename(UrlPath(url))
                expected == IF segment = <<>> THEN DefaultFilename ELSE segment
                fetched == Fetches(j) # <<>> /\ Fetches(j)[Len(Fetches(j))].ok
                ended == workers[j].pc \in {"finally", "done"}
            IN  /\ Len(ev) <= 2
                /\ Len(ev) = 2 <=> ended
                /\ Len(ev) >= 1 => ev[1].status = "downloading" /\ ev[1].progress = 0
                /\ Len(ev) = 2 =>
                      /\ Terminal(ev[2])
                      /\ ev[2].status = "completed" =>
                            /\ fetched
                            /\ expected \in DOMAIN downloads
                            /\ ArtifactData(downloads[expected]) = <<url>>
                            /\ ev[2].filename = expected
                            /\ ev[2].progress = 1
                      /\ ev[2].status = "error" =>
                            /\ ~(fetched /\ FilesOf(j) # {})
                            /\ ev[2].filename = <<>>
                            /\ ev[2].progress = 0

\* C13, witness: one single job has ended on a completed event that carries the
\* default name, and another one on an error event after a fetch that succeeded
\* (the write failed).
C13_Witness ==
    \E j, k \in Jobs :
        /\ workers[j].mode = "single"
        /\ workers[k].mode = "single"
        /\ Finished(j)
        /\ LastStatus(j) = "completed"
        /\ events[j][2].filename = DefaultFilename
        /\ Finished(k)
        /\ LastStatus(k) = "error"
        /\ Fetches(k) # <<>>
        /\ Fetches(k)[1].ok

\* C14: in a batch job, a step calls the packager only when a converting event
\* is already in the stream, and the step emits one event: completed, carrying the
\* output name followed by "." and the requested format, when the packager
\* returned success; error, carrying no filename, when it returned failure. No
\* other step of the job emits a completed event.
C14_ConvertingThenPackaging ==
    [][\A j \in BatchJobs :
          LET called == Len(trace'[j].packagers) = Len(trace[j].packagers) + 1
              call == trace'[j].packagers[Len(trace'[j].packagers)]
              e == events'[j][Len(events'[j])]
          IN  /\ called \/ trace'[j].packagers = trace[j].packagers
              /\ called =>
                    /\ \E k \in 1..Len(events[j]) : events[j][k].status = "converting"
                    /\ Len(events'[j]) = Len(events[j]) + 1
                    /\ call.format = workers[j].output_format
                    /\ IF call.success
                       THEN /\ e.status = "completed"
                            /\ e.filename
                                 = workers[j].output_name \o <<".">> \o workers[j].output_format
                       ELSE /\ e.status = "error"
                            /\ e.filename = <<>>
              /\ (Len(events'[j]) > Len(events[j]) /\ e.status = "completed")
                    => called /\ call.success]_vars

\* C14, witness: the packager of one job has returned success and the job has
\* ended on a completed event that carries d.zip; the packager of another has
\* returned failure and the job has ended on an error event.
C14_Witness ==
    \E j, k \in BatchJobs :
        /\ Finished(j)
        /\ Len(trace[j].packagers) = 1
        /\ trace[j].packagers[1].success
        /\ LastStatus(j) = "completed"
        /\ events[j][Len(events[j])].filename = <<"d", ".", "z", "i", "p">>
        /\ Finished(k)
        /\ Len(trace[k].packagers) = 1
        /\ ~trace[k].packagers[1].success
        /\ LastStatus(k) = "error"

\* C15: in the stream of a job the progress an event carries is greater than or
\* equal to the progress every earlier event of the job carries, the terminal
\* event included.
C15_ProgressMonotonic ==
    \A j \in Jobs :
        \A a, b \in 1..Len(events[j]) :
            a < b => events[j][a].progress <= events[j][b].progress

\* s.replace(old, new, 1): the first occurrence of old alone
RECURSIVE ReplaceFirst(_, _, _)
ReplaceFirst(s, old, new) ==
    IF s = <<>> \/ old = <<>> THEN s
    ELSE IF StartsWith(s, old)
         THEN new \o Slice(s, Len(old) + 1, Len(s))
         ELSE <<s[1]>> \o ReplaceFirst(Tail(s), old, new)

\* C16: the template the extractor returns is the start URL with the first
\* occurrence of the matched digit run, and no other, replaced by the
\* placeholder: it holds the placeholder once, and url_template.format(page_num)
\* does not raise.
C16_TemplateOnePlaceholder ==
    \A j \in BatchJobs :
        RangeExtracted(j) =>
            /\ workers[j].url_template
                 = ReplaceFirst(workers[j].start_url, RegexMatch(workers[j].start_url),
                                Placeholder)
            /\ CountOccurrences(workers[j].url_template, Placeholder) = 1
            /\ ~FormatRaises(workers[j].url_template)

\* C17: no step removes an identifier from the registry; a registered identifier
\* stays mapped to the same job (the same request, a stream that only grows, a
\* worker that is not started again); and a step that submits a request adds
\* exactly one identifier, which was not registered before.
C17_RegistryOnlyGrows ==
    [][/\ Jobs \subseteq DOMAIN active_downloads'
       /\ Jobs \subseteq DOMAIN workers'
       /\ \A j \in Jobs :
            /\ workers'[j].mode = workers[j].mode
            /\ workers'[j].url = workers[j].url
            /\ workers'[j].start_url = workers[j].start_url
            /\ workers'[j].end_url = workers[j].end_url
            /\ workers'[j].output_name = workers[j].output_name
            /\ workers'[j].output_format = workers[j].output_format
            /\ Len(events'[j]) >= Len(events[j])
            /\ SubSeq(events'[j], 1, Len(events[j])) = events[j]
            /\ workers[j].pc # "start" => workers'[j].pc # "start"
       /\ ((\E url \in SingleUrls : download_single(url))
             \/ (\E req \in BatchRequests : download_batch(req)))
            => \E j \in JobIds \ Jobs : DOMAIN active_downloads' = Jobs \cup {j}]_vars

\* C17, witness: a second job has been registered after the worker of the first
\* had ended, and the first job is still registered with its stream.
C17_Witness ==
    /\ DOMAIN active_downloads = {1, 2}
    /\ Finished(1)
    /\ HasTerminal(1)
    /\ workers[2].pc = "start"
    /\ events[2] = <<>>

\* C18: in every reachable state the manager of every job has
\* 0 <= progress <= total, and so has every event of its stream. The total of a
\* single job is 0 until its worker starts and 1 from then on; the total of a batch
\* job is 0 until its worker has accepted the range and end - start + 1 from then
\* on; the total an event carries is the total of the manager when it was emitted.
C18_ProgressWithinTotal ==
    \A j \in Jobs :
        LET m == active_downloads[j]
            expected == IF workers[j].mode = "single"
                        THEN (IF workers[j].pc = "start" THEN 0 ELSE 1)
                        ELSE (IF ValidRange(j) THEN RangeSize(j) ELSE 0)
        IN  /\ 0 <= m.progress
            /\ m.progress <= m.total
            /\ m.total = expected
            /\ \A k \in 1..Len(events[j]) :
                   /\ 0 <= events[j][k].progress
                   /\ events[j][k].progress <= events[j][k].total
                   /\ events[j][k].total \in {0, expected}
                   /\ events[j][k].progress > 0 => events[j][k].total = expected

\* C18, witness: a single job has ended with progress 1 of 1 and a batch job of
\* two pages or more with progress equal to its total.
C18_Witness ==
    \E j, k \in Jobs :
        /\ workers[j].mode = "single"
        /\ Finished(j)
        /\ active_downloads[j].progress = 1
        /\ active_downloads[j].total = 1
        /\ workers[k].mode = "batch"
        /\ Finished(k)
        /\ active_downloads[k].total >= 2
        /\ active_downloads[k].progress = active_downloads[k].total

\* C19: after every step, a job whose status is downloading or converting has
\* is_downloading true; a job whose is_downloading is false has status ready, and
\* then its worker has not started, or completed or error; and a job whose status
\* was completed or error before the step has status completed or error after it.
C19_ActiveStatusHasWorker ==
    [][\A j \in DOMAIN active_downloads' :
          LET m == active_downloads'[j]
          IN  /\ m.status \in {"downloading", "converting"} => m.is_downloading
              /\ ~m.is_downloading => m.status \in {"ready", "completed", "error"}
              /\ (~m.is_downloading /\ m.status = "ready") => workers'[j].pc = "start"
              /\ (j \in Jobs /\ active_downloads[j].status \in {"completed", "error"})
                    => m.status \in {"completed", "error"}]_vars

\* C19, witness: one job has ended, is_downloading false, after a completed event
\* and then an error event (the cleanup of its temporary directory raised), while
\* another job is converting with is_downloading true.
C19_Witness ==
    \E j, k \in Jobs :
        /\ Finished(j)
        /\ ~active_downloads[j].is_downloading
        /\ Cardinality(TerminalAt(j)) = 2
        /\ active_downloads[j].status = "error"
        /\ active_downloads[k].status = "converting"
        /\ active_downloads[k].is_downloading

====
